---- MODULE Spec2Model ----
(***************************************************************************)
(* zkdisasm: the EVM bytecode disassembler.                                *)
(*                                                                         *)
(* One behaviour is one call Disassembler().disassemble(bytecode):         *)
(* bytes.fromhex(bytecode[2:]), then the parse_all generator driven by the *)
(* for loop of disassemble, one parse_one per iteration.                   *)
(*                                                                         *)
(* A Python str is a sequence of one-character strings, a bytes object a   *)
(* sequence of integers 0..255.  An Optional value is the empty sequence   *)
(* (None) or a one-element sequence (the value).                           *)
(***************************************************************************)
EXTENDS Integers, Sequences, FiniteSets, TLC

VARIABLES
    bytecode,     \* disassemble's argument: the input string
    config_dict,  \* InstructionFactory.config_dict: opcode -> metadata tuple
    phase,        \* position of the call: "call", "scan", "emit", "return", "raise"
    stream,       \* the bytes object behind bytecode_iter
    pos,          \* number of bytes bytecode_iter has handed out
    pc,           \* parse_all's local pc
    instruction,  \* parse_all's local instruction (None until the first parse_one returns)
    result,       \* disassemble's local result list
    error,        \* the exception leaving disassemble, None while there is none
    printed,      \* the lines written to standard output
    deployed,     \* the code the chain holds at the address from_chain asks for
    raw_table,    \* the module-level instruction_table InstructionFactory reads
    log,          \* the calls of disassemble that have ended, oldest first
    self,         \* the Disassembler instance the call runs on
    other_config_dict,  \* config_dict of the Disassembler instance not in use
    heap,         \* the Instruction objects created, in creation order
    ref,          \* the object parse_all's local instruction refers to
    refs          \* the objects disassemble's result list refers to

\* What a call of disassemble neither reads nor writes.
env_vars == <<printed, deployed, raw_table, log, self, other_config_dict>>

\* The Instruction objects and the references to them.
heap_vars == <<heap, ref, refs>>

vars == <<bytecode, config_dict, phase, stream, pos, pc, instruction, result, error,
          printed, deployed, raw_table, log, self, other_config_dict, heap, ref, refs>>

\* Longest well-formed bytecode (in bytes) among the inputs.
MaxBytes == 4

\* Longest arbitrary input string (in characters) among the inputs.
MaxChars == 5

None == <<>>

Some(v) == <<v>>

-----------------------------------------------------------------------------
(* zkdisasm/config.py: instruction_table, rows                             *)
(* (opcode, name, operands, pops, pushs, gas).  The rows here are the EVM  *)
(* opcodes the inputs below can spell.                                     *)

instruction_table ==
    << <<0,   "STOP",      0, 0, 0, 0>>,
       <<1,   "ADD",       0, 2, 1, 3>>,
       <<2,   "MUL",       0, 2, 1, 5>>,
       <<6,   "MOD",       0, 2, 1, 5>>,
       <<16,  "LT",        0, 2, 1, 3>>,
       <<17,  "GT",        0, 2, 1, 3>>,
       <<22,  "AND",       0, 2, 1, 3>>,
       <<64,  "BLOCKHASH", 0, 1, 1, 20>>,
       <<82,  "MSTORE",    0, 2, 0, 3>>,
       <<96,  "PUSH1",     1, 0, 1, 3>>,
       <<97,  "PUSH2",     2, 0, 1, 3>>,
       <<102, "PUSH7",     7, 0, 1, 3>>,
       <<128, "DUP1",      0, 1, 2, 3>> >>

\* dict.setdefault(key, value): a present key keeps its value.
setitem_if_absent(dict, key, value) ==
    IF key \in DOMAIN dict THEN dict
    ELSE [k \in DOMAIN dict \cup {key} |-> IF k = key THEN value ELSE dict[k]]

\* dict[key] = value: a new key is added, the value of a present key is
\* replaced.
setitem(dict, key, value) ==
    [k \in DOMAIN dict \cup {key} |-> IF k = key THEN value ELSE dict[k]]

\* The dict comprehension over the first n rows of the table, in order.
RECURSIVE comprehension(_, _)
comprehension(table, n) ==
    IF n = 0 THEN <<>>
    ELSE setitem(comprehension(table, n - 1), table[n][1], table[n])

\* InstructionFactory.__init__: {item[0]: item for item in instruction_table}
InstructionFactory_init(table) == comprehension(table, Len(table))

-----------------------------------------------------------------------------
(* Instruction                                                             *)

\* Instruction.__init__
Instruction(opcode, name, operands, pops, pushs, gas) ==
    [opcode |-> opcode, name |-> name, operands |-> operands,
     pops |-> pops, pushs |-> pushs, gas |-> gas,
     operand |-> None, pc |-> None]

\* MissingInstruction.__init__
MissingInstruction(opcode) == Instruction(opcode, "MISSING", 0, 0, 0, 0)

\* The factory handing out one shared Instruction object per opcode.
allocate_cached(objects, opcode) ==
    IF \E id \in DOMAIN objects : objects[id].opcode = opcode
    THEN CHOOSE id \in DOMAIN objects : objects[id].opcode = opcode
    ELSE Len(objects) + 1

\* The object a constructor call Instruction(...) or MissingInstruction(...)
\* returns: a new one.
allocate(objects, opcode) == Len(objects) + 1

\* The objects after the attributes of object id are assigned.
store(objects, id, attributes) ==
    IF id = Len(objects) + 1 THEN Append(objects, attributes)
    ELSE [objects EXCEPT ![id] = attributes]

\* create with the operand count read from the pops column of the row.
create_operands_from_pops(opcode) ==
    IF opcode \in DOMAIN config_dict
    THEN LET config == config_dict[opcode]
         IN  Instruction(config[1], config[2], config[4], config[4], config[5], config[6])
    ELSE MissingInstruction(opcode)

\* InstructionFactory.create
create(opcode) ==
    IF opcode \in DOMAIN config_dict
    THEN LET config == config_dict[opcode]
         IN  Instruction(config[1], config[2], config[3], config[4], config[5], config[6])
    ELSE MissingInstruction(opcode)

\* size without the operand bytes.
size_without_operands(ins) == 1

\* Instruction.size
size(ins) == 1 + ins.operands

\* a | b on non-negative integers
RECURSIVE BitOr(_, _)
BitOr(a, b) ==
    IF a = 0 THEN b
    ELSE IF b = 0 THEN a
    ELSE (IF a % 2 = 1 \/ b % 2 = 1 THEN 1 ELSE 0) + 2 * BitOr(a \div 2, b \div 2)

\* The for loop of Instruction.parse with n iterations left: operand <<= 8,
\* operand |= next(bytecode_iter); next raises StopIteration on an exhausted
\* iterator.
RECURSIVE parse_loop(_, _, _, _)
parse_loop(n, operand, bytes, at) ==
    IF n = 0 THEN [raised |-> FALSE, operand |-> operand, pos |-> at]
    ELSE IF at >= Len(bytes) THEN [raised |-> TRUE, operand |-> operand * 256, pos |-> at]
    ELSE parse_loop(n - 1, BitOr(operand * 256, bytes[at + 1]), bytes, at + 1)

\* The loop of parse with the bytes assembled least-significant first.
RECURSIVE parse_loop_little_endian(_, _, _, _, _)
parse_loop_little_endian(n, k, operand, bytes, at) ==
    IF k = n THEN [raised |-> FALSE, operand |-> operand, pos |-> at]
    ELSE IF at >= Len(bytes) THEN [raised |-> TRUE, operand |-> operand, pos |-> at]
    ELSE parse_loop_little_endian(n, k + 1, operand + bytes[at + 1] * (256 ^ k), bytes, at + 1)

\* parse assembling the operand in little-endian order.
parse_little_endian(ins, bytes, at) ==
    IF ins.operands # 0
    THEN LET r == parse_loop_little_endian(ins.operands, 0, 0, bytes, at)
         IN  [raised |-> r.raised,
              instruction |-> IF r.raised THEN ins ELSE [ins EXCEPT !.operand = Some(r.operand)],
              pos |-> r.pos]
    ELSE [raised |-> FALSE, instruction |-> ins, pos |-> at]

\* The loop of parse with next(bytecode_iter, 0): a missing byte reads as 0.
RECURSIVE parse_loop_zero_pad(_, _, _, _)
parse_loop_zero_pad(n, operand, bytes, at) ==
    IF n = 0 THEN [raised |-> FALSE, operand |-> operand, pos |-> at]
    ELSE IF at >= Len(bytes) THEN parse_loop_zero_pad(n - 1, operand * 256, bytes, at)
    ELSE parse_loop_zero_pad(n - 1, BitOr(operand * 256, bytes[at + 1]), bytes, at + 1)

\* parse padding a short operand with zero bytes instead of raising.
parse_zero_pad(ins, bytes, at) ==
    IF ins.operands # 0
    THEN LET r == parse_loop_zero_pad(ins.operands, 0, bytes, at)
         IN  [raised |-> FALSE,
              instruction |-> [ins EXCEPT !.operand = Some(r.operand)],
              pos |-> r.pos]
    ELSE [raised |-> FALSE, instruction |-> ins, pos |-> at]

\* parse assigning self.operand whether or not the opcode has operand bytes.
parse_always_assigns(ins, bytes, at) ==
    LET r == parse_loop(ins.operands, 0, bytes, at)
    IN  [raised |-> r.raised,
         instruction |-> IF r.raised THEN ins ELSE [ins EXCEPT !.operand = Some(r.operand)],
         pos |-> r.pos]

\* Instruction.parse: the instruction after it, the iterator's position after
\* it, and whether StopIteration left it (self.operand is then not assigned).
parse(ins, bytes, at) ==
    IF ins.operands # 0
    THEN LET r == parse_loop(ins.operands, 0, bytes, at)
         IN  [raised |-> r.raised,
              instruction |-> IF r.raised THEN ins ELSE [ins EXCEPT !.operand = Some(r.operand)],
              pos |-> r.pos]
    ELSE [raised |-> FALSE, instruction |-> ins, pos |-> at]

-----------------------------------------------------------------------------
(* Disassembler                                                            *)

\* parse_one ending the pass at an opcode the table does not define.
parse_one_stop_at_missing(bytes, at, pc_) ==
    IF at >= Len(bytes) \/ bytes[at + 1] \notin DOMAIN config_dict
    THEN [outcome |-> "None", instruction |-> None, pos |-> at]
    ELSE LET r == parse(create(bytes[at + 1]), bytes, at + 1)
         IN  IF r.raised
             THEN [outcome |-> "StopIteration", instruction |-> None, pos |-> r.pos]
             ELSE [outcome |-> "Instruction",
                   instruction |-> Some([r.instruction EXCEPT !.pc = Some(pc_)]),
                   pos |-> r.pos]

\* parse_one without the try/except around next(bytecode_iter).
parse_one_uncaught_stop(bytes, at, pc_) ==
    IF at >= Len(bytes)
    THEN [outcome |-> "StopIteration", instruction |-> None, pos |-> at]
    ELSE LET r == parse(create(bytes[at + 1]), bytes, at + 1)
         IN  IF r.raised
             THEN [outcome |-> "StopIteration", instruction |-> None, pos |-> r.pos]
             ELSE [outcome |-> "Instruction",
                   instruction |-> Some([r.instruction EXCEPT !.pc = Some(pc_)]),
                   pos |-> r.pos]

\* parse_one assigning the offset after the opcode byte as pc.
parse_one_pc_after_opcode(bytes, at, pc_) ==
    IF at >= Len(bytes)
    THEN [outcome |-> "None", instruction |-> None, pos |-> at]
    ELSE LET r == parse(create(bytes[at + 1]), bytes, at + 1)
         IN  IF r.raised
             THEN [outcome |-> "StopIteration", instruction |-> None, pos |-> r.pos]
             ELSE [outcome |-> "Instruction",
                   instruction |-> Some([r.instruction EXCEPT !.pc = Some(pc_ + 1)]),
                   pos |-> r.pos]

\* parse_one reading the opcode without advancing the iterator (it peeks at
\* the byte instead of calling next).
parse_one_peeks(bytes, at, pc_) ==
    IF at >= Len(bytes)
    THEN [outcome |-> "None", instruction |-> None, pos |-> at]
    ELSE LET r == parse(create(bytes[at + 1]), bytes, at)
         IN  IF r.raised
             THEN [outcome |-> "StopIteration", instruction |-> None, pos |-> r.pos]
             ELSE [outcome |-> "Instruction",
                   instruction |-> Some([r.instruction EXCEPT !.pc = Some(pc_)]),
                   pos |-> r.pos]

\* Disassembler.parse_one: "None" on an exhausted iterator, "StopIteration"
\* when Instruction.parse ran out of bytes, else the instruction with its pc.
parse_one(bytes, at, pc_) ==
    IF at >= Len(bytes)
    THEN [outcome |-> "None", instruction |-> None, pos |-> at]
    ELSE LET opcode == bytes[at + 1]
             r == parse(create(opcode), bytes, at + 1)
         IN  IF r.raised
             THEN [outcome |-> "StopIteration", instruction |-> None, pos |-> r.pos]
             ELSE [outcome |-> "Instruction",
                   instruction |-> Some([r.instruction EXCEPT !.pc = Some(pc_)]),
                   pos |-> r.pos]

-----------------------------------------------------------------------------
(* bytes.fromhex, as disassemble uses it                                   *)

HexLower == <<"0", "1", "2", "3", "4", "5", "6", "7", "8", "9", "a", "b", "c", "d", "e", "f">>

HexUpper == <<"0", "1", "2", "3", "4", "5", "6", "7", "8", "9", "A", "B", "C", "D", "E", "F">>

\* The ASCII whitespace fromhex skips between bytes.
Whitespace == {" ", "\t", "\n", "\r", "\f"}

IsHexDigit(c) == \E i \in DOMAIN HexLower : HexLower[i] = c \/ HexUpper[i] = c

\* The value of a hexadecimal digit.
DigitValue(c) == (CHOOSE i \in DOMAIN HexLower : HexLower[i] = c \/ HexUpper[i] = c) - 1

\* fromhex from index i on, with the bytes acc built so far: whitespace is
\* skipped before a byte, a byte is two adjacent hexadecimal digits, anything
\* else raises ValueError.
RECURSIVE fromhex_from(_, _, _)
fromhex_from(s, i, acc) ==
    IF i > Len(s) THEN [ok |-> TRUE, bytes |-> acc]
    ELSE IF s[i] \in Whitespace THEN fromhex_from(s, i + 1, acc)
    ELSE IF ~IsHexDigit(s[i]) THEN [ok |-> FALSE, bytes |-> <<>>]
    ELSE IF i + 1 > Len(s) \/ ~IsHexDigit(s[i + 1]) THEN [ok |-> FALSE, bytes |-> <<>>]
    ELSE fromhex_from(s, i + 2, Append(acc, 16 * DigitValue(s[i]) + DigitValue(s[i + 1])))

\* fromhex dropping every character that is not a hexadecimal digit.
fromhex_skip_invalid(s) ==
    LET digits == SelectSeq(s, IsHexDigit)
    IN  IF Len(digits) % 2 = 1 THEN [ok |-> FALSE, bytes |-> <<>>]
        ELSE fromhex_from(digits, 1, <<>>)

\* bytes.fromhex(s)
fromhex(s) == fromhex_from(s, 1, <<>>)

\* bytecode[2:]
strip_prefix(s) == SubSeq(s, 3, Len(s))

\* The characters of a mnemonic (a str is a sequence of characters).
characters(name) ==
    CASE name = "STOP" -> <<"S", "T", "O", "P">>
      [] name = "ADD" -> <<"A", "D", "D">>
      [] name = "MUL" -> <<"M", "U", "L">>
      [] name = "MOD" -> <<"M", "O", "D">>
      [] name = "LT" -> <<"L", "T">>
      [] name = "GT" -> <<"G", "T">>
      [] name = "AND" -> <<"A", "N", "D">>
      [] name = "BLOCKHASH" -> <<"B", "L", "O", "C", "K", "H", "A", "S", "H">>
      [] name = "MSTORE" -> <<"M", "S", "T", "O", "R", "E">>
      [] name = "PUSH1" -> <<"P", "U", "S", "H", "1">>
      [] name = "PUSH2" -> <<"P", "U", "S", "H", "2">>
      [] name = "PUSH7" -> <<"P", "U", "S", "H", "7">>
      [] name = "DUP1" -> <<"D", "U", "P", "1">>
      [] name = "MISSING" -> <<"M", "I", "S", "S", "I", "N", "G">>
      [] name = "CALLDATALOAD" -> <<"C", "A", "L", "L", "D", "A", "T", "A", "L", "O", "A", "D">>

\* format(n, "x"): the lowercase hexadecimal digits of n, without padding.
RECURSIVE hex_digits(_)
hex_digits(n) ==
    IF n < 16 THEN <<HexLower[n + 1]>>
    ELSE hex_digits(n \div 16) \o <<HexLower[(n % 16) + 1]>>

\* The zero padding of the format specifications 04x and %0Nx: up to a
\* minimum width, never cutting.
RECURSIVE zero_pad(_, _)
zero_pad(digits, width) ==
    IF Len(digits) >= width THEN digits ELSE zero_pad(<<"0">> \o digits, width)

\* (self.name + ' ' * 9)[:9]
name_column(name) == SubSeq(characters(name) \o [i \in 1..9 |-> " "], 1, 9)

\* __str__ with the operand padded to operands digits instead of operands * 2.
Instruction_str_operand_width(ins) ==
    (IF ins.pc # None THEN zero_pad(hex_digits(ins.pc[1]), 4) \o <<":">>
     ELSE <<"?", "?", "?", "?", ":">>)
    \o <<" ">> \o name_column(ins.name)
    \o (IF ins.operands # 0
        THEN <<" ", "0", "x">> \o zero_pad(hex_digits(ins.operand[1]), ins.operands)
        ELSE <<>>)

\* Instruction.__str__, for an instruction it does not raise on.
Instruction_str(ins) ==
    (IF ins.pc # None THEN zero_pad(hex_digits(ins.pc[1]), 4) \o <<":">>
     ELSE <<"?", "?", "?", "?", ":">>)
    \o <<" ">> \o name_column(ins.name)
    \o (IF ins.operands # 0
        THEN <<" ", "0", "x">> \o zero_pad(hex_digits(ins.operand[1]), ins.operands * 2)
        ELSE <<>>)

\* Whether "0x%0Nx" % self.operand raises TypeError: the instruction has
\* operand bytes and its operand is still None.
str_raises(ins) == ins.operands # 0 /\ ins.operand = None

-----------------------------------------------------------------------------
(* The inputs of a call                                                    *)

\* The bytes well-formed inputs are made of: PUSH1, PUSH2, ADD, MUL, MSTORE
\* and 0x0c, which no row of the table defines.
ByteSet == {96, 97, 1, 2, 82, 12}

\* The characters arbitrary inputs are made of.
CharSet == {"0", "x", "6", "1", " ", "g"}

SeqsUpTo(S, n) == UNION {[1..k -> S] : k \in 0..n}

\* "0x" followed by two lowercase hexadecimal digits per byte.
RECURSIVE HexString(_)
HexString(bytes) ==
    IF bytes = <<>> THEN <<>>
    ELSE <<HexLower[(Head(bytes) \div 16) + 1], HexLower[(Head(bytes) % 16) + 1]>>
         \o HexString(Tail(bytes))

WellFormed == {<<"0", "x">> \o HexString(b) : b \in SeqsUpTo(ByteSet, MaxBytes)}

Arbitrary == SeqsUpTo(CharSet, MaxChars)

\* 0x6080604052, the common contract preamble.
Preamble == <<"0", "x", "6", "0", "8", "0", "6", "0", "4", "0", "5", "2">>

Inputs == WellFormed \cup Arbitrary \cup {Preamble}

-----------------------------------------------------------------------------
(* One call of disassemble                                                 *)

Init ==
    /\ bytecode \in Inputs
    /\ config_dict = InstructionFactory_init(instruction_table)
    /\ phase = "call"
    /\ stream = <<>>
    /\ pos = 0
    /\ pc = 0
    /\ instruction = None
    /\ result = <<>>
    /\ error = None
    /\ printed = <<>>
    /\ deployed = <<>>
    /\ raw_table = instruction_table
    /\ log = <<>>
    /\ self = 1
    /\ other_config_dict = InstructionFactory_init(instruction_table)
    /\ heap = <<>>
    /\ ref = 0
    /\ refs = <<>>

\* disassemble with the pc kept from the instance's previous call.
disassemble_fromhex_keeps_pc ==
    /\ phase = "call"
    /\ fromhex(strip_prefix(bytecode)).ok
    /\ stream' = fromhex(strip_prefix(bytecode)).bytes
    /\ pos' = 0
    /\ result' = <<>>
    /\ refs' = <<>>
    /\ phase' = "scan"
    /\ UNCHANGED <<bytecode, config_dict, pc, instruction, error, heap, ref>>
    /\ UNCHANGED env_vars

\* disassemble, lines 79-80 when fromhex succeeds: result = [], the iterator
\* over the bytes, and parse_all starts with pc = 0.
disassemble_fromhex ==
    /\ phase = "call"
    /\ fromhex(strip_prefix(bytecode)).ok
    /\ stream' = fromhex(strip_prefix(bytecode)).bytes
    /\ pos' = 0
    /\ pc' = 0
    /\ result' = <<>>
    /\ refs' = <<>>
    /\ phase' = "scan"
    /\ UNCHANGED <<bytecode, config_dict, instruction, error, heap, ref>>
    /\ UNCHANGED env_vars

\* disassemble, line 80 when fromhex raises: ValueError leaves disassemble.
disassemble_value_error ==
    /\ phase = "call"
    /\ ~fromhex(strip_prefix(bytecode)).ok
    /\ error' = Some([type |-> "ValueError", pc |-> None])
    /\ phase' = "raise"
    /\ UNCHANGED <<bytecode, config_dict, stream, pos, pc, instruction, result>>
    /\ UNCHANGED <<env_vars, heap_vars>>

\* parse_all, lines 63-65: parse_one returns None, the generator returns and
\* disassemble returns result.
parse_all_return ==
    /\ phase = "scan"
    /\ LET r == parse_one(stream, pos, pc)
       IN  /\ r.outcome = "None"
           /\ instruction' = r.instruction
           /\ pos' = r.pos
    /\ phase' = "return"
    /\ UNCHANGED <<bytecode, config_dict, stream, pc, result, error>>
    /\ UNCHANGED <<env_vars, heap_vars>>

\* parse_all, line 63: parse_one returns an instruction.
parse_all_parse_one ==
    /\ phase = "scan"
    /\ LET r == parse_one(stream, pos, pc)
       IN  /\ r.outcome = "Instruction"
           /\ instruction' = r.instruction
           /\ pos' = r.pos
           /\ ref' = allocate(heap, stream[pos + 1])
           /\ heap' = store(heap, allocate(heap, stream[pos + 1]), r.instruction[1])
    /\ phase' = "emit"
    /\ UNCHANGED <<bytecode, config_dict, stream, pc, result, error, refs>>
    /\ UNCHANGED env_vars

\* parse_all, line 63: StopIteration leaves parse_one inside the generator,
\* which the interpreter turns into RuntimeError("generator raised
\* StopIteration"); it leaves disassemble, and carries no pc.
parse_all_stop_iteration ==
    /\ phase = "scan"
    /\ LET r == parse_one(stream, pos, pc)
       IN  /\ r.outcome = "StopIteration"
           /\ pos' = r.pos
    /\ error' = Some([type |-> "RuntimeError", pc |-> None])
    /\ phase' = "raise"
    /\ UNCHANGED <<bytecode, config_dict, stream, pc, instruction, result>>
    /\ UNCHANGED <<env_vars, heap_vars>>

\* parse_all advancing pc by one byte per instruction.
parse_all_yield_pc_plus_one ==
    /\ phase = "emit"
    /\ pc' = pc + 1
    /\ result' = Append(result, instruction[1])
    /\ refs' = Append(refs, ref)
    /\ phase' = "scan"
    /\ UNCHANGED <<bytecode, config_dict, stream, pos, instruction, error, heap, ref>>
    /\ UNCHANGED env_vars

\* parse_all, lines 66-67, and disassemble, line 82: pc += instruction.size,
\* the instruction is yielded and appended to result.
parse_all_yield ==
    /\ phase = "emit"
    /\ pc' = pc + size(instruction[1])
    /\ result' = Append(result, instruction[1])
    /\ refs' = Append(refs, ref)
    /\ phase' = "scan"
    /\ UNCHANGED <<bytecode, config_dict, stream, pos, instruction, error, heap, ref>>
    /\ UNCHANGED env_vars

\* __main__ printing while the instructions are still being parsed.
main_print_while_parsing ==
    /\ phase \in {"scan", "emit", "return"}
    /\ Len(printed) < Len(result)
    /\ printed' = Append(printed, Instruction_str(result[Len(printed) + 1]))
    /\ UNCHANGED <<bytecode, config_dict, phase, stream, pos, pc, instruction, result, error>>
    /\ UNCHANGED <<deployed, raw_table, log, self, other_config_dict, heap_vars>>

\* __main__, lines 50-51: once disassemble has returned the list,
\* print(instruction) for the next instruction of it.
main_print ==
    /\ phase = "return"
    /\ Len(printed) < Len(result)
    /\ printed' = Append(printed, Instruction_str(result[Len(printed) + 1]))
    /\ UNCHANGED <<bytecode, config_dict, phase, stream, pos, pc, instruction, result, error>>
    /\ UNCHANGED <<deployed, raw_table, log, self, other_config_dict, heap_vars>>

Next ==
    \/ disassemble_fromhex
    \/ disassemble_value_error
    \/ parse_all_return
    \/ parse_all_parse_one
    \/ parse_all_stop_iteration
    \/ parse_all_yield
    \/ main_print

\* The call runs to its end: the interpreter does not stop a call part-way.
FairSpec == Init /\ [][Next]_vars /\ WF_vars(Next)

Spec == Init /\ [][Next]_vars

-----------------------------------------------------------------------------
(* print(instruction) on one instruction                                   *)

\* The rows the printed instructions are made from: the table's, and
\* CALLDATALOAD, whose mnemonic is longer than the name column.
StrRows ==
    {instruction_table[i] : i \in DOMAIN instruction_table}
        \cup {<<53, "CALLDATALOAD", 0, 1, 1, 3>>}

\* The pc values of the printed instructions: unset, 0, 0x60, 0xffff, 0x10000.
StrPcs == {None, Some(0), Some(96), Some(65535), Some(65536)}

\* The operand values of the printed instructions with n operand bytes:
\* still None, the least, one in between and the greatest the model holds.
StrOperands(n) ==
    IF n = 0 THEN {None}
    ELSE IF n = 1 THEN {None, Some(0), Some(128), Some(255)}
    ELSE IF n = 2 THEN {None, Some(0), Some(258), Some(65535)}
    ELSE {None, Some(0), Some(1), Some(2147483647)}

StrInstructions ==
    {MissingInstruction(12)} \cup
    UNION {{[Instruction(row[1], row[2], row[3], row[4], row[5], row[6])
                EXCEPT !.pc = p, !.operand = o] : p \in StrPcs, o \in StrOperands(row[3])}
           : row \in StrRows}

InitStr ==
    /\ instruction \in {Some(ins) : ins \in StrInstructions}
    /\ phase = "str"
    /\ bytecode = <<>>
    /\ config_dict = InstructionFactory_init(instruction_table)
    /\ stream = <<>>
    /\ pos = 0
    /\ pc = 0
    /\ result = <<>>
    /\ error = None
    /\ printed = <<>>
    /\ deployed = <<>>
    /\ raw_table = instruction_table
    /\ log = <<>>
    /\ self = 1
    /\ other_config_dict = InstructionFactory_init(instruction_table)
    /\ heap = <<>>
    /\ ref = 0
    /\ refs = <<>>

\* print(instruction): __str__ returns the line.
str_returns ==
    /\ phase = "str"
    /\ ~str_raises(instruction[1])
    /\ printed' = <<Instruction_str(instruction[1])>>
    /\ phase' = "printed"
    /\ UNCHANGED <<bytecode, config_dict, stream, pos, pc, instruction, result, error>>
    /\ UNCHANGED <<deployed, raw_table, log, self, other_config_dict, heap_vars>>

\* print(instruction): the % of __str__ raises TypeError.
str_type_error ==
    /\ phase = "str"
    /\ str_raises(instruction[1])
    /\ error' = Some([type |-> "TypeError", pc |-> None])
    /\ phase' = "raise"
    /\ UNCHANGED <<bytecode, config_dict, stream, pos, pc, instruction, result>>
    /\ UNCHANGED <<env_vars, heap_vars>>

NextStr == str_returns \/ str_type_error

SpecStr == InitStr /\ [][NextStr]_vars

-----------------------------------------------------------------------------
(* InstructionFactory() over a table with repeated opcodes                 *)

MaxRows == 3

\* Rows of a table: two definitions for 0x60, two for 0x01.
FactoryRows ==
    {<<96, "PUSH1", 1, 0, 1, 3>>, <<96, "PUSH2", 2, 0, 1, 3>>,
     <<1, "ADD", 0, 2, 1, 3>>, <<1, "MUL", 0, 2, 1, 5>>}

\* The opcodes asked of the factory: the two of the rows and one of no row.
FactoryOpcodes == {96, 1, 12}

InitFactory ==
    /\ raw_table \in SeqsUpTo(FactoryRows, MaxRows)
    /\ phase = "new"
    /\ config_dict = <<>>
    /\ other_config_dict = <<>>
    /\ bytecode = <<>>
    /\ stream = <<>>
    /\ pos = 0
    /\ pc = 0
    /\ instruction = None
    /\ result = <<>>
    /\ error = None
    /\ printed = <<>>
    /\ deployed = <<>>
    /\ log = <<>>
    /\ self = 1
    /\ heap = <<>>
    /\ ref = 0
    /\ refs = <<>>

\* InstructionFactory(): __init__ builds config_dict from the table.
InstructionFactory_new ==
    /\ phase = "new"
    /\ config_dict' = InstructionFactory_init(raw_table)
    /\ phase' = "built"
    /\ UNCHANGED <<bytecode, stream, pos, pc, instruction, result, error>>
    /\ UNCHANGED <<env_vars, heap_vars>>

\* factory.create(opcode) on the built factory.
factory_create ==
    /\ phase = "built"
    /\ \E opcode \in FactoryOpcodes :
        /\ instruction' = Some(create(opcode))
        /\ ref' = allocate(heap, opcode)
        /\ heap' = store(heap, allocate(heap, opcode), create(opcode))
    /\ phase' = "created"
    /\ UNCHANGED <<bytecode, config_dict, stream, pos, pc, result, error, refs>>
    /\ UNCHANGED env_vars

NextFactory == InstructionFactory_new \/ factory_create

SpecFactory == InitFactory /\ [][NextFactory]_vars

-----------------------------------------------------------------------------
(* The --chain mode: from_chain, then the call of disassemble              *)

\* bytes.hex(): two lowercase hexadecimal digits per byte.
RECURSIVE bytes_hex(_)
bytes_hex(bytes) ==
    IF bytes = <<>> THEN <<>>
    ELSE <<HexLower[(Head(bytes) \div 16) + 1], HexLower[(Head(bytes) % 16) + 1]>>
         \o bytes_hex(Tail(bytes))

\* What HexBytes.hex() puts before the digits: nothing (hexbytes from 1.0
\* on, as bytes.hex()) or 0x (hexbytes before 1.0).  The repository pins no
\* version.
HexBytesPrefixes == {<<>>, <<"0", "x">>}

InitChain ==
    /\ deployed \in SeqsUpTo(ByteSet, MaxBytes)
    /\ phase = "chain"
    /\ bytecode = <<>>
    /\ config_dict = InstructionFactory_init(instruction_table)
    /\ stream = <<>>
    /\ pos = 0
    /\ pc = 0
    /\ instruction = None
    /\ result = <<>>
    /\ error = None
    /\ printed = <<>>
    /\ raw_table = instruction_table
    /\ log = <<>>
    /\ self = 1
    /\ other_config_dict = InstructionFactory_init(instruction_table)
    /\ heap = <<>>
    /\ ref = 0
    /\ refs = <<>>

\* from_chain with NODE_URL set: "0x" + w3.eth.get_code(address).hex(); main
\* then calls disassemble on what parse_args returned.
from_chain ==
    /\ phase = "chain"
    /\ \E prefix \in HexBytesPrefixes :
        bytecode' = <<"0", "x">> \o prefix \o bytes_hex(deployed)
    /\ phase' = "call"
    /\ UNCHANGED <<config_dict, stream, pos, pc, instruction, result, error>>
    /\ UNCHANGED <<env_vars, heap_vars>>

\* from_chain with NODE_URL unset: web3_provider.get raises RuntimeError.
from_chain_runtime_error ==
    /\ phase = "chain"
    /\ error' = Some([type |-> "RuntimeError", pc |-> None])
    /\ phase' = "raise"
    /\ UNCHANGED <<bytecode, config_dict, stream, pos, pc, instruction, result>>
    /\ UNCHANGED <<env_vars, heap_vars>>

NextChain == from_chain \/ from_chain_runtime_error \/ Next

SpecChain == InitChain /\ [][NextChain]_vars

-----------------------------------------------------------------------------
(* Several calls of disassemble, on two Disassembler instances             *)

MaxCalls == 3

\* The texts of the calls: 0x6001, the same bytes written 0x60 01, the
\* truncated 0x60, the malformed 0xg, and 0x01610102.
CallInputs ==
    {<<"0", "x", "6", "0", "0", "1">>,
     <<"0", "x", "6", "0", " ", "0", "1">>,
     <<"0", "x", "6", "0">>,
     <<"0", "x", "g">>,
     <<"0", "x", "0", "1", "6", "1", "0", "1", "0", "2">>}

\* The two Disassembler instances.
Instances == {1, 2}

InitCalls ==
    /\ bytecode \in CallInputs
    /\ self \in Instances
    /\ config_dict = InstructionFactory_init(instruction_table)
    /\ other_config_dict = InstructionFactory_init(instruction_table)
    /\ phase = "call"
    /\ stream = <<>>
    /\ pos = 0
    /\ pc = 0
    /\ instruction = None
    /\ result = <<>>
    /\ error = None
    /\ printed = <<>>
    /\ deployed = <<>>
    /\ raw_table = instruction_table
    /\ log = <<>>
    /\ heap = <<>>
    /\ ref = 0
    /\ refs = <<>>

\* The caller keeps what the call gave (the list returned or the exception
\* raised) and calls disassemble again, on the same instance or the other
\* one.  config_dict is the table of the instance called.  The locals of the
\* finished call are dead: the new call sets its own.
call_again ==
    /\ phase \in {"return", "raise"}
    /\ Len(log) + 1 < MaxCalls
    /\ log' = Append(log, [self |-> self, bytecode |-> bytecode, raised |-> error,
                           returned |-> IF phase = "return" THEN result ELSE <<>>])
    /\ \E text \in CallInputs, instance \in Instances :
        /\ bytecode' = text
        /\ self' = instance
        /\ config_dict' = IF instance = self THEN config_dict ELSE other_config_dict
        /\ other_config_dict' = IF instance = self THEN other_config_dict ELSE config_dict
    /\ phase' = "call"
    /\ error' = None
    /\ UNCHANGED <<stream, pos, pc, instruction, result, printed, deployed, raw_table>>
    /\ UNCHANGED heap_vars

NextCalls ==
    \/ call_again
    \/ disassemble_fromhex
    \/ disassemble_value_error
    \/ parse_all_return
    \/ parse_all_parse_one
    \/ parse_all_stop_iteration
    \/ parse_all_yield

SpecCalls == InitCalls /\ [][NextCalls]_vars

-----------------------------------------------------------------------------
(* The table changed after a call of disassemble                           *)

\* The row an entry of config_dict is replaced with.
ReplacementRow(opcode) == <<opcode, "MUL", 2, 0, 1, 5>>

\* config_dict after del config_dict[opcode].
delitem(dict, opcode) == [k \in DOMAIN dict \ {opcode} |-> dict[k]]

\* An instruction that reads its definition through the table entry.
rebound(ins, opcode, row) ==
    IF ins.opcode = opcode
    THEN [ins EXCEPT !.name = row[2], !.operands = row[3], !.pops = row[4],
                     !.pushs = row[5], !.gas = row[6]]
    ELSE ins

\* The entry changed under instructions that share the row with the table.
mutate_config_dict_shared_rows ==
    /\ phase = "return"
    /\ result # <<>>
    /\ \E k \in DOMAIN result :
        \/ /\ result[k].opcode \in DOMAIN config_dict
           /\ config_dict' = delitem(config_dict, result[k].opcode)
           /\ result' = [i \in DOMAIN result |->
                            rebound(result[i], result[k].opcode, <<result[k].opcode, "MISSING", 0, 0, 0, 0>>)]
           /\ heap' = [i \in DOMAIN heap |->
                            rebound(heap[i], result[k].opcode, <<result[k].opcode, "MISSING", 0, 0, 0, 0>>)]
        \/ /\ config_dict' = setitem(config_dict, result[k].opcode, ReplacementRow(result[k].opcode))
           /\ result' = [i \in DOMAIN result |->
                            rebound(result[i], result[k].opcode, ReplacementRow(result[k].opcode))]
           /\ heap' = [i \in DOMAIN heap |->
                            rebound(heap[i], result[k].opcode, ReplacementRow(result[k].opcode))]
    /\ phase' = "mutated"
    /\ UNCHANGED <<bytecode, stream, pos, pc, instruction, error, ref, refs>>
    /\ UNCHANGED env_vars

\* After disassemble returned, the caller removes (del) or replaces the
\* entry of config_dict for the opcode of one of the returned instructions.
\* The instructions hold the values Instruction.__init__ assigned, not the
\* row.
mutate_config_dict ==
    /\ phase = "return"
    /\ result # <<>>
    /\ \E k \in DOMAIN result :
        \/ /\ result[k].opcode \in DOMAIN config_dict
           /\ config_dict' = delitem(config_dict, result[k].opcode)
        \/ config_dict' = setitem(config_dict, result[k].opcode, ReplacementRow(result[k].opcode))
    /\ phase' = "mutated"
    /\ UNCHANGED <<bytecode, stream, pos, pc, instruction, result, error>>
    /\ UNCHANGED <<env_vars, heap_vars>>

NextTable ==
    \/ mutate_config_dict
    \/ disassemble_fromhex
    \/ disassemble_value_error
    \/ parse_all_return
    \/ parse_all_parse_one
    \/ parse_all_stop_iteration
    \/ parse_all_yield

SpecTable == Init /\ [][NextTable]_vars

-----------------------------------------------------------------------------
(* What the claims speak of                                                *)

\* The row of instruction_table for byte b, as a set (empty when b has none).
Rows(b) == {i \in DOMAIN instruction_table : instruction_table[i][1] = b}

\* The mnemonic the table gives byte b, or MISSING.
RefName(b) == IF Rows(b) = {} THEN "MISSING" ELSE instruction_table[CHOOSE i \in Rows(b) : TRUE][2]

\* The operand bytes the table declares for byte b, 0 when it has no row.
RefOperandBytes(b) == IF Rows(b) = {} THEN 0 ELSE instruction_table[CHOOSE i \in Rows(b) : TRUE][3]

RECURSIVE Pow256(_)
Pow256(k) == IF k = 0 THEN 1 ELSE 256 * Pow256(k - 1)

\* sum of bytes[first + i] * 256^(n - 1 - i) for i in 0..n-1 (first is 1-based)
RECURSIVE BigEndianFrom(_, _, _, _)
BigEndianFrom(bytes, first, n, i) ==
    IF i = n THEN 0
    ELSE bytes[first + i] * Pow256(n - 1 - i) + BigEndianFrom(bytes, first, n, i + 1)

BigEndian(bytes, first, n) == BigEndianFrom(bytes, first, n, 0)

\* The reference decoder from offset p on: (pc, name, operand) per instruction.
RECURSIVE RefDecode(_, _)
RefDecode(bytes, p) ==
    IF p >= Len(bytes) THEN <<>>
    ELSE LET n == RefOperandBytes(bytes[p + 1])
         IN  <<[pc |-> Some(p),
                name |-> RefName(bytes[p + 1]),
                operand |-> IF n = 0 THEN None ELSE Some(BigEndian(bytes, p + 2, n))]>>
             \o RefDecode(bytes, p + 1 + n)

\* Whether, from offset p on, some opcode declares more operand bytes than remain.
RECURSIVE RefTruncated(_, _)
RefTruncated(bytes, p) ==
    IF p >= Len(bytes) THEN FALSE
    ELSE LET n == RefOperandBytes(bytes[p + 1])
         IN  IF p + 1 + n > Len(bytes) THEN TRUE ELSE RefTruncated(bytes, p + 1 + n)

\* The offset of the opcode whose operand is incomplete (bytes is truncated).
RECURSIVE RefTruncatedPc(_, _)
RefTruncatedPc(bytes, p) ==
    LET n == RefOperandBytes(bytes[p + 1])
    IN  IF p + 1 + n > Len(bytes) THEN p ELSE RefTruncatedPc(bytes, p + 1 + n)

RECURSIVE SumSizes(_)
SumSizes(instructions) ==
    IF instructions = <<>> THEN 0 ELSE size(Head(instructions)) + SumSizes(Tail(instructions))

\* (pc, name, operand) of every instruction of a list.
Triples(instructions) ==
    [i \in DOMAIN instructions |->
        [pc |-> instructions[i].pc, name |-> instructions[i].name, operand |-> instructions[i].operand]]

\* The decode pass is over: disassemble returned, or an exception left parse_all.
DecodeEnded == phase = "return" \/ (phase = "raise" /\ error[1].type = "RuntimeError")

\* The call is over.
CallEnded == phase \in {"return", "raise"}

\* C1: when the bytes decode without truncation, the decode pass ends by
\* returning and the sizes of the returned instructions add up to the number
\* of input bytes.
C1_SizesSumToLength ==
    (DecodeEnded /\ ~RefTruncated(stream, 0)) =>
        /\ phase = "return"
        /\ SumSizes(result) = Len(stream)

C1_Witness ==
    /\ phase = "return"
    /\ Len(result) >= 2
    /\ \E i \in DOMAIN result : result[i].operands = 2

\* C2: in the instructions produced so far the first pc is 0, and each next pc
\* is the previous pc plus the previous size, hence strictly greater.
C2_PcChain ==
    /\ Len(result) > 0 => result[1].pc = Some(0)
    /\ \A i \in 1..(Len(result) - 1) :
        /\ result[i].pc[1] < result[i + 1].pc[1]
        /\ result[i].pc[1] + size(result[i]) = result[i + 1].pc[1]

C2_Witness ==
    /\ Len(result) >= 3
    /\ result[1].operands > 0
    /\ result[2].operands = 0

\* C3: for non-truncated bytes disassemble returns what the reference decoder
\* gives, position by position; 0x6080604052 gives (0, PUSH1, 0x80),
\* (2, PUSH1, 0x40), (4, MSTORE, None).
C3_MatchesReference ==
    /\ (DecodeEnded /\ ~RefTruncated(stream, 0)) =>
        /\ phase = "return"
        /\ Triples(result) = RefDecode(stream, 0)
    /\ (bytecode = Preamble /\ CallEnded) =>
        /\ phase = "return"
        /\ Triples(result) =
            << [pc |-> Some(0), name |-> "PUSH1", operand |-> Some(128)],
               [pc |-> Some(2), name |-> "PUSH1", operand |-> Some(64)],
               [pc |-> Some(4), name |-> "MSTORE", operand |-> None] >>

C3_Witness == bytecode = Preamble /\ phase = "return"

\* C4: a byte without a table row becomes, at its own pc, a MISSING
\* instruction with the raw opcode, zero operands, pops, pushs and gas, size 1
\* and no operand; and the byte right after it is read as the next opcode.
C4_MissingContinues ==
    /\ (pc < Len(stream) /\ Rows(stream[pc + 1]) = {}) => ~CallEnded
    /\ (phase = "emit" /\ Rows(stream[pc + 1]) = {}) =>
        /\ instruction[1].name = "MISSING"
        /\ instruction[1].pc = Some(pc)
        /\ pos = pc + 1
    /\ \A i \in DOMAIN result :
        Rows(stream[result[i].pc[1] + 1]) = {} =>
            /\ result[i] = [opcode |-> stream[result[i].pc[1] + 1], name |-> "MISSING",
                            operands |-> 0, pops |-> 0, pushs |-> 0, gas |-> 0,
                            operand |-> None, pc |-> result[i].pc]
            /\ size(result[i]) = 1
            /\ (CallEnded /\ result[i].pc[1] + 1 < Len(stream)) =>
                /\ pos > result[i].pc[1] + 1
                /\ phase = "return" => i < Len(result)
                /\ i < Len(result) =>
                    /\ result[i + 1].pc = Some(result[i].pc[1] + 1)
                    /\ result[i + 1].opcode = stream[result[i].pc[1] + 2]

C4_Witness ==
    /\ phase = "return"
    /\ Len(result) >= 2
    /\ result[1].name = "MISSING"
    /\ result[2].name = "PUSH1"

\* C5: parse of an instruction with n > 0 operand bytes takes exactly the n
\* bytes after the opcode, and the operand is their big-endian value; bytes
\* 0x01, 0x02 after PUSH2 give 0x0102.
C5_BigEndianOperand ==
    /\ (phase = "emit" /\ instruction[1].operands > 0) =>
        /\ pos = instruction[1].pc[1] + 1 + instruction[1].operands
        /\ instruction[1].operand =
            Some(BigEndian(stream, instruction[1].pc[1] + 2, instruction[1].operands))
    /\ (phase = "emit" /\ stream = <<97, 1, 2>>) => instruction[1].operand = Some(258)

C5_Witness == phase = "emit" /\ stream = <<97, 1, 2>> /\ pos = 3

\* C6: when the bytes end inside an operand, no instruction whose operand
\* bytes were not all present is yielded or returned, and the pass ends in an
\* error: the call never returns; 0x60 yields nothing and fails.
C6_NoPartialInstruction ==
    /\ RefTruncated(stream, 0) =>
        /\ \A i \in DOMAIN result :
            /\ result[i].pc[1] + size(result[i]) <= Len(stream)
            /\ result[i].pc[1] < RefTruncatedPc(stream, 0)
        /\ phase = "emit" => instruction[1].pc[1] + size(instruction[1]) <= Len(stream)
        /\ phase # "return"
        /\ CallEnded => error # None
    /\ (bytecode = <<"0", "x", "6", "0">> /\ phase # "call") =>
        /\ result = <<>>
        /\ phase \in {"scan", "raise"}
        /\ phase = "raise" => error # None

C6_Witness ==
    /\ phase = "raise"
    /\ RefTruncated(stream, 0)
    /\ Len(result) >= 1
    /\ Len(stream) - pc = 2

\* C7: when the bytes end inside an operand, the pass fails with an error
\* that carries the pc of the opcode whose operand is incomplete, and a
\* clean end of the bytes leaves no error.
C7_TruncationErrorNamesPc ==
    /\ (RefTruncated(stream, 0) /\ CallEnded) =>
        /\ phase = "raise"
        /\ error # None
        /\ error[1].pc = Some(RefTruncatedPc(stream, 0))
    /\ (phase = "return") => error = None

\* The characters after the two-character prefix.
Body == strip_prefix(bytecode)

\* Nothing was decoded: no instruction created, none yielded, no byte read.
NothingDecoded == result = <<>> /\ instruction = None /\ pos = 0 /\ pc = 0

\* The call failed on the hexadecimal text, before decoding.
RejectedAsMalformedHex ==
    /\ phase = "raise"
    /\ error = Some([type |-> "ValueError", pc |-> None])
    /\ NothingDecoded

\* C8: disassemble("0x") returns the empty list and raises nothing.
C8_EmptyBytecode ==
    (bytecode = <<"0", "x">> /\ phase # "call") =>
        /\ result = <<>>
        /\ error = None
        /\ phase \in {"scan", "return"}

C8_Witness == bytecode = <<"0", "x">> /\ phase = "return" /\ result = <<>>

\* C9 as stated: when the characters after the prefix are not all
\* hexadecimal digits, or are odd in number, the call fails on the
\* hexadecimal text before any instruction is decoded.
C9_Original ==
    (/\ Len(bytecode) >= 2
     /\ \/ \E i \in DOMAIN Body : ~IsHexDigit(Body[i])
        \/ Len(Body) % 2 = 1
     /\ phase # "call") => RejectedAsMalformedHex

\* C9 amended: when the characters after the prefix that are not ASCII
\* whitespace are not all hexadecimal digits, or the hexadecimal digits are
\* odd in number, the call fails with ValueError before any instruction is
\* decoded.
C9_MalformedHexRejected ==
    (/\ Len(bytecode) >= 2
     /\ \/ \E i \in DOMAIN Body : Body[i] \notin Whitespace /\ ~IsHexDigit(Body[i])
        \/ Len(SelectSeq(Body, IsHexDigit)) % 2 = 1
     /\ phase # "call") => RejectedAsMalformedHex

C9_Witness ==
    /\ bytecode = <<"0", "x", "6", "0", "6">>
    /\ phase = "raise"

\* C10: an input that does not begin with 0x is rejected on the hexadecimal
\* text before any decoding; its first two characters are never dropped and
\* the rest decoded.
C10_MissingPrefixRejected ==
    ~(Len(bytecode) >= 2 /\ bytecode[1] = "0" /\ bytecode[2] = "x") =>
        /\ NothingDecoded
        /\ CallEnded => RejectedAsMalformedHex

\* The instructions emitted so far: those yielded, and the one parse_one has
\* just returned.
Emitted == IF phase = "emit" THEN Append(result, instruction[1]) ELSE result

\* C16: every emitted instruction's opcode is the input byte at its pc, and
\* between instructions the iterator has handed out exactly pc bytes.
C16_PcIsOpcodeOffset ==
    /\ \A i \in DOMAIN Emitted :
        /\ Emitted[i].pc # None
        /\ Emitted[i].pc[1] \in 0..(Len(stream) - 1)
        /\ Emitted[i].opcode = stream[Emitted[i].pc[1] + 1]
    /\ phase \in {"scan", "return"} => pos = pc

C16_Witness ==
    /\ phase = "scan"
    /\ Len(result) = 2
    /\ result[1].operands = 2
    /\ pc = 4

\* C17: an emitted instruction has operand None exactly when it has no
\* operand bytes, and otherwise 0 <= operand < 256^operands; an instruction
\* without operand bytes takes no byte beyond its opcode.
C17_OperandShape ==
    /\ \A i \in DOMAIN Emitted :
        /\ Emitted[i].operand = None <=> Emitted[i].operands = 0
        /\ Emitted[i].operands > 0 =>
            /\ Emitted[i].operand[1] >= 0
            /\ Emitted[i].operand[1] < Pow256(Emitted[i].operands)
    /\ (phase = "emit" /\ instruction[1].operands = 0) => pos = pc + 1

C17_Witness ==
    /\ phase = "emit"
    /\ instruction[1].operands = 0
    /\ Len(result) = 1
    /\ result[1].operand = Some(258)

\* The iterations of the loop of parse_all that read an opcode.
Iterations ==
    Len(result) + (IF phase = "emit" THEN 1 ELSE 0)
                + (IF phase = "raise" /\ error[1].type = "RuntimeError" THEN 1 ELSE 0)

\* C18: the decode loop ends: every iteration takes at least one byte, so
\* there are at most as many iterations as input bytes; the call reaches its
\* end, and once it has, no instruction is emitted any more.
C18_LoopTerminates ==
    /\ [](/\ Iterations <= pos
          /\ pos <= Len(stream)
          /\ Iterations <= Len(stream))
    /\ [][/\ (phase = "scan" /\ phase' \in {"emit", "raise"}) => pos' > pos
          /\ CallEnded => (phase' = phase /\ result' = result /\ pos' = pos)]_vars
    /\ <>CallEnded

C18_Witness ==
    /\ phase = "return"
    /\ Len(result) = Len(stream)
    /\ Len(stream) = 3

\* C20: every decoded position has an Instruction object of its own: the
\* objects of the result list are pairwise distinct, each still holds the pc
\* and operand it was emitted with, and no step changes the pc or operand of
\* an object that exists, also when a later position has the same opcode.
C20_FreshInstructionObjects ==
    /\ [](/\ Len(refs) = Len(result)
          /\ \A i \in DOMAIN refs : heap[refs[i]] = result[i]
          /\ \A i, j \in DOMAIN refs : i # j => refs[i] # refs[j])
    /\ [][\A id \in DOMAIN heap :
            /\ heap'[id].pc = heap[id].pc
            /\ heap'[id].operand = heap[id].operand]_vars

C20_Witness ==
    /\ phase = "emit"
    /\ Len(result) = 1
    /\ instruction[1].opcode = result[1].opcode
    /\ instruction[1].operand # result[1].operand
    /\ ref # refs[1]
    /\ heap[refs[1]] = result[1]

\* Digit k (0 the least significant) of n in base 16.
RECURSIVE HexDigitAt(_, _)
HexDigitAt(n, k) == IF k = 0 THEN HexLower[(n % 16) + 1] ELSE HexDigitAt(n \div 16, k - 1)

\* n written with exactly w lowercase hexadecimal digits.
FixedHex(n, w) == [i \in 1..w |-> HexDigitAt(n, w - i)]

\* The number of hexadecimal digits n needs, at least 4.
RECURSIVE PcWidth(_, _)
PcWidth(n, w) == IF n < 16 ^ w THEN w ELSE PcWidth(n, w + 1)

\* The mnemonic in exactly 9 characters: cut, or padded with spaces.
NameField(name) ==
    [i \in 1..9 |-> IF i <= Len(characters(name)) THEN characters(name)[i] ELSE " "]

\* The line for an instruction whose pc field is pcField.
LineWith(pcField, ins) ==
    pcField \o <<":", " ">> \o NameField(ins.name)
    \o (IF ins.operands > 0
        THEN <<" ", "0", "x">> \o FixedHex(ins.operand[1], 2 * ins.operands)
        ELSE <<>>)

C14_PrintAfterDecode ==
    /\ [](/\ phase # "return" => printed = <<>>
          /\ Len(printed) <= Len(result)
          /\ \A k \in DOMAIN printed :
                /\ printed[k] = Instruction_str(result[k])
                /\ SubSeq(printed[k], 1, 4) = FixedHex(result[k].pc[1], 4)
                /\ k > 1 => result[k - 1].pc[1] < result[k].pc[1])
    /\ (phase = "return") ~> (phase = "return" /\ Len(printed) = Len(result))

C14_Witness ==
    /\ phase = "return"
    /\ Len(result) = 3
    /\ Len(printed) = 3
    /\ result[2].operands = 1

\* The index of the last row of the table for opcode op.
LastRow(table, op) ==
    CHOOSE i \in DOMAIN table :
        /\ table[i][1] = op
        /\ \A j \in DOMAIN table : table[j][1] = op => j <= i

\* C19: building the factory never fails, whatever opcodes the table
\* repeats; the table built has exactly the opcodes of the rows as keys, one
\* definition each, the one of the last row for the opcode, and that is the
\* definition create uses.
C19_LastDefinitionWins ==
    /\ phase # "raise" /\ error = None
    /\ phase = "new" => ENABLED InstructionFactory_new
    /\ phase \in {"built", "created"} =>
        /\ DOMAIN config_dict = {raw_table[i][1] : i \in DOMAIN raw_table}
        /\ \A op \in DOMAIN config_dict :
            config_dict[op] = raw_table[LastRow(raw_table, op)]
    /\ phase = "created" =>
        IF \E i \in DOMAIN raw_table : raw_table[i][1] = instruction[1].opcode
        THEN LET row == raw_table[LastRow(raw_table, instruction[1].opcode)]
             IN  /\ instruction[1].name = row[2]
                 /\ instruction[1].operands = row[3]
                 /\ instruction[1].pops = row[4]
                 /\ instruction[1].pushs = row[5]
                 /\ instruction[1].gas = row[6]
        ELSE instruction[1].name = "MISSING"

C19_Witness ==
    /\ phase = "created"
    /\ Len(raw_table) = 3
    /\ raw_table[1][1] = raw_table[3][1]
    /\ raw_table[1] # raw_table[3]
    /\ instruction[1].opcode = raw_table[3][1]
    /\ instruction[1].name = raw_table[3][2]

\* The bytes as hexadecimal text, two digits per byte.
HexText(bytes) == [i \in 1..(2 * Len(bytes)) |-> HexDigitAt(bytes[(i + 1) \div 2], i % 2)]

\* C15: what from_chain returns is 0x followed by the hexadecimal digits of
\* the deployed code, and the empty string when the address has no code.
C15_PrefixedHexOrEmpty ==
    (phase # "chain" /\ error = None) =>
        bytecode = IF deployed = <<>> THEN <<>> ELSE <<"0", "x">> \o HexText(deployed)

\* The calls made so far that are over: the logged ones and, once it is over,
\* the current one.
CallsOver ==
    IF CallEnded
    THEN Append(log, [self |-> self, bytecode |-> bytecode, raised |-> error,
                      returned |-> IF phase = "return" THEN result ELSE <<>>])
    ELSE log

\* The bytes a call's text stands for.
BytesOf(call) == fromhex(strip_prefix(call.bytecode))

\* C11: two calls given the same byte sequence, on the same instance or on
\* two, whatever calls were made before or between them, failed ones
\* included, end the same way: both return lists of the same length with the
\* same pc, name and operand at every position, or both raise the same error.
C11_RepeatedDecodeEqual ==
    \A i, j \in DOMAIN CallsOver :
        (/\ BytesOf(CallsOver[i]).ok
         /\ BytesOf(CallsOver[j]).ok
         /\ BytesOf(CallsOver[i]).bytes = BytesOf(CallsOver[j]).bytes) =>
            /\ CallsOver[i].raised = CallsOver[j].raised
            /\ Len(CallsOver[i].returned) = Len(CallsOver[j].returned)
            /\ Triples(CallsOver[i].returned) = Triples(CallsOver[j].returned)

C11_Witness ==
    /\ Len(log) = 2
    /\ phase = "return"
    /\ log[1].self # self
    /\ log[1].bytecode # bytecode
    /\ BytesOf(log[1]).bytes = stream
    /\ Len(log[1].returned) = 1
    /\ log[2].raised # None
    /\ Len(result) = 1

\* The six definition fields of an instruction.
Definition(ins) == <<ins.opcode, ins.name, ins.operands, ins.pops, ins.pushs, ins.gas>>

\* The definition the table gave byte b when the instruction was produced.
MatchedDefinition(b) ==
    IF Rows(b) = {} THEN <<b, "MISSING", 0, 0, 0, 0>>
    ELSE instruction_table[CHOOSE i \in Rows(b) : TRUE]

\* C12: a change or removal of a table entry after the instructions were
\* produced changes the table and no field of any produced instruction: each
\* still has the opcode, name, operand bytes, pops, pushs and gas of the
\* definition matched when it was decoded.
C12_InstructionOwnsItsFields ==
    /\ [](phase = "mutated" =>
            /\ config_dict # InstructionFactory_init(instruction_table)
            /\ \A k \in DOMAIN result :
                /\ Definition(result[k]) = MatchedDefinition(result[k].opcode)
                /\ Definition(heap[refs[k]]) = MatchedDefinition(result[k].opcode))
    /\ [][(phase = "return" /\ phase' = "mutated") =>
            /\ result' = result
            /\ \A id \in DOMAIN heap : heap'[id] = heap[id]]_vars

C12_Witness ==
    /\ phase = "mutated"
    /\ Len(result) = 2
    /\ result[1].name = "PUSH1"
    /\ 96 \notin DOMAIN config_dict

====
